---- MODULE Spec2Model ----
(***************************************************************************)
(* A model of the client-side template engine of uweb3 (class Template,    *)
(* TemplateConditional, TemplateLoop).  JavaScript strings are TLA+        *)
(* strings, read character by character with SubSeq; JavaScript objects    *)
(* that keep insertion order are sequences of <<key, value>> pairs.        *)
(***************************************************************************)
EXTENDS Integers, Sequences, FiniteSets, TLC

(***************************************************************************)
(* Bounds of the model.                                                    *)
(***************************************************************************)
MaxPieces == 2

(***************************************************************************)
(* String primitives of the host language.                                 *)
(***************************************************************************)
\* String.prototype.charAt, 1-based: the empty string outside the string.
Ch(s, i) == IF i >= 1 /\ i <= Len(s) THEN SubSeq(s, i, i) ELSE ""

StartsAt(s, i, p) ==
  /\ i >= 1
  /\ i + Len(p) - 1 <= Len(s)
  /\ SubSeq(s, i, i + Len(p) - 1) = p

\* String.prototype.indexOf(p, from), 1-based; 0 when p does not occur.
RECURSIVE IndexOf(_, _, _)
IndexOf(s, p, from) ==
  IF from + Len(p) - 1 > Len(s) THEN 0
  ELSE IF StartsAt(s, from, p) THEN from
  ELSE IndexOf(s, p, from + 1)

\* String.prototype.split(sep) for a string separator; the empty separator
\* splits into characters.
RECURSIVE SplitStr(_, _)
SplitStr(s, sep) ==
  LET i == IndexOf(s, sep, 1)
  IN IF sep = "" THEN [k \in 1..Len(s) |-> Ch(s, k)]
     ELSE IF i = 0 THEN <<s>>
     ELSE <<SubSeq(s, 1, i - 1)>> \o SplitStr(SubSeq(s, i + Len(sep), Len(s)), sep)

\* Array.prototype.join(sep) on an array of strings.
RECURSIVE JoinStr(_, _)
JoinStr(parts, sep) ==
  IF Len(parts) = 0 THEN ""
  ELSE IF Len(parts) = 1 THEN parts[1]
  ELSE parts[1] \o sep \o JoinStr(Tail(parts), sep)

\* String.prototype.replace(p, r) with a string pattern: first occurrence only.
ReplaceFirst(s, p, r) ==
  LET i == IndexOf(s, p, 1)
  IN IF i = 0 THEN s
     ELSE SubSeq(s, 1, i - 1) \o r \o SubSeq(s, i + Len(p), Len(s))

\* The character classes of the two regular expressions.
WhiteSpace == {" ", "\n", "\t"}
LineTerminator == {"\n"}
Digits == {"0", "1", "2", "3", "4", "5", "6", "7", "8", "9"}
WordChars ==
  {"a", "b", "c", "d", "e", "f", "g", "h", "i", "j", "k", "l", "m",
   "n", "o", "p", "q", "r", "s", "t", "u", "v", "w", "x", "y", "z",
   "A", "B", "C", "D", "E", "F", "G", "H", "I", "J", "K", "L", "M",
   "N", "O", "P", "Q", "R", "S", "T", "U", "V", "W", "X", "Y", "Z",
   "_"} \cup Digits

\* Length of the longest run of characters of class cls starting at i.
RECURSIVE Run(_, _, _)
Run(s, i, cls) ==
  IF i <= Len(s) /\ Ch(s, i) \in cls THEN 1 + Run(s, i + 1, cls) ELSE 0

(***************************************************************************)
(* get FUNCTION: /\{\{\s*(.*?)\s*\}\}/mg.  FunctionMatch(s, i) is the match *)
(* that starts exactly at i: << end position, captured interior >>, or     *)
(* <<0, "">> when there is none.  \s* is greedy, (.*?) is the shortest run *)
(* of non-line-terminators after which optional white space and }} follow. *)
(***************************************************************************)
RECURSIVE FunctionCapture(_, _, _)
FunctionCapture(s, a, c) ==
  LET p == a + c
      q == p + Run(s, p, WhiteSpace)
  IN IF StartsAt(s, q, "}}") THEN <<q + 1, SubSeq(s, a, p - 1)>>
     ELSE IF p > Len(s) \/ Ch(s, p) \in LineTerminator THEN <<0, "">>
     ELSE FunctionCapture(s, a, c + 1)

FunctionMatch(s, i) ==
  IF StartsAt(s, i, "{{")
  THEN FunctionCapture(s, i + 2 + Run(s, i + 2, WhiteSpace), 0)
  ELSE <<0, "">>

\* String.prototype.split(FUNCTION): the text before each match, then the
\* captured group of the match, and last the text after the final match.
RECURSIVE SplitFunction(_, _, _)
SplitFunction(s, start, i) ==
  IF i > Len(s) THEN <<SubSeq(s, start, Len(s))>>
  ELSE LET m == FunctionMatch(s, i)
       IN IF m[1] = 0 THEN SplitFunction(s, start, i + 1)
          ELSE <<SubSeq(s, start, i - 1), m[2]>> \o SplitFunction(s, m[1] + 1, m[1] + 1)

\* String.prototype.toUpperCase on one character.
LowerCase == "abcdefghijklmnopqrstuvwxyz"
UpperCase == "ABCDEFGHIJKLMNOPQRSTUVWXYZ"
ToUpperChar(c) ==
  LET i == IndexOf(LowerCase, c, 1)
  IN IF c = "" \/ i = 0 THEN c ELSE Ch(UpperCase, i)

\* func.charAt(0).toUpperCase() + func.substring(1)
Capitalize(func) == ToUpperChar(Ch(func, 1)) \o SubSeq(func, 2, Len(func))

(***************************************************************************)
(* get TAG:                                                                *)
(*  /(\[\w+(?:(?::[\w-]+)+)?(?:(?:\|[\w-]+(?:\([^()]*?\))?)+)?\])/gm        *)
(* TagEnd(s, i) is the last position of the match starting at i, or 0.     *)
(***************************************************************************)
WordDashChars == WordChars \cup {"-"}

\* (?::[\w-]+)* from position p: the position after the last modifier.
RECURSIVE TagModifiers(_, _)
TagModifiers(s, p) ==
  LET n == Run(s, p + 1, WordDashChars)
  IN IF Ch(s, p) = ":" /\ n >= 1 THEN TagModifiers(s, p + 1 + n) ELSE p

\* (?:\([^()]*?\))? from position p: the position after the arguments.
TagArguments(s, p) ==
  LET n == Run(s, p + 1, {Ch(s, k) : k \in 1..Len(s)} \ {"(", ")"})
  IN IF Ch(s, p) = "(" /\ Ch(s, p + 1 + n) = ")" THEN p + n + 2 ELSE p

\* (?:\|[\w-]+(?:\([^()]*?\))?)* from position p.
RECURSIVE TagFilters(_, _)
TagFilters(s, p) ==
  LET n == Run(s, p + 1, WordDashChars)
  IN IF Ch(s, p) = "|" /\ n >= 1
     THEN TagFilters(s, TagArguments(s, p + 1 + n))
     ELSE p

TagEnd(s, i) ==
  LET n == Run(s, i + 1, WordChars)
      p == TagFilters(s, TagModifiers(s, i + 1 + n))
  IN IF Ch(s, i) = "[" /\ n >= 1 /\ Ch(s, p) = "]" THEN p ELSE 0

\* String.prototype.match(TAG): every match, left to right, none overlapping.
\* The empty sequence stands for the null that match returns without a match.
RECURSIVE MatchTags(_, _)
MatchTags(s, i) ==
  IF i > Len(s) THEN <<>>
  ELSE LET e == TagEnd(s, i)
       IN IF e = 0 THEN MatchTags(s, i + 1)
          ELSE <<SubSeq(s, i, e)>> \o MatchTags(s, e + 1)

\* new RegExp(/(\[\w+?\])/gm).test(value)
IsBareTag(value) ==
  \E i \in 1..Len(value) :
    LET n == Run(value, i + 1, WordChars)
    IN Ch(value, i) = "[" /\ n >= 1 /\ Ch(value, i + 1 + n) = "]"

(***************************************************************************)
(* JavaScript values.  A value is a record: t its type, s its text (the    *)
(* string itself, the decimal digits of a number, "true"/"false"), a the   *)
(* elements of an array.                                                   *)
(***************************************************************************)
Str(s) == [t |-> "string", s |-> s, a |-> <<>>]
Num(digits) == [t |-> "number", s |-> digits, a |-> <<>>]
Bool(b) == [t |-> "boolean", s |-> IF b THEN "true" ELSE "false", a |-> <<>>]
Arr(elems) == [t |-> "array", s |-> "", a |-> elems]
Obj == [t |-> "object", s |-> "", a |-> <<>>]
\* An object is kept by its own property names.
ObjectOf(pairs) ==
  [t |-> "object", s |-> "", a |-> [k \in 1..Len(pairs) |-> pairs[k][1]]]
Undefined == [t |-> "undefined", s |-> "", a |-> <<>>]
Thrown(kind) == [t |-> "thrown", s |-> kind, a |-> <<>>]

\* ToString(v), as template literals and Array.prototype.join apply it.
JSToString(v) ==
  CASE v.t = "array" -> JoinStr(v.a, ",")
    [] v.t = "undefined" -> "undefined"
    [] v.t = "object" -> "[object Object]"
    [] OTHER -> v.s

\* ToBoolean(v)
ToBoolean(v) ==
  CASE v.t = "string" -> v.s # ""
    [] v.t = "number" -> Run(v.s, 1, {"0"}) # Len(v.s)
    [] v.t = "boolean" -> v.s = "true"
    [] v.t = "undefined" -> FALSE
    [] OTHER -> TRUE

\* obj[key] on an object kept as a sequence of <<key, value>> pairs.
RECURSIVE Get(_, _)
Get(obj, key) ==
  IF Len(obj) = 0 THEN Undefined
  ELSE IF obj[1][1] = key THEN obj[1][2]
  ELSE Get(Tail(obj), key)

\* s.replace(sep, v) with a string pattern: the first occurrence only.
SplitJoinFirstOnly(s, sep, v) == ReplaceFirst(s, sep, JSToString(v))

\* s.split(sep).join(v): join applies JSToString, and an undefined separator
\* is the comma.
SplitJoin(s, sep, v) ==
  JoinStr(SplitStr(s, sep), IF v.t = "undefined" THEN "," ELSE JSToString(v))

(***************************************************************************)
(* Function(body)() for the bodies _EvaluateClause builds:                 *)
(*   let <name> = "<text>"; ... if(<expr>){return true}else{return false}  *)
(* The expression is read as operands separated by the binary operators    *)
(* && || == != in, all separated by spaces or tabs.  Operands: an          *)
(* identifier, a                                                           *)
(* number without leading zero, true, false, and an array literal [a] or   *)
(* [a|b].  Everything else the parser of the host language rejects or is   *)
(* outside what the model's inputs contain.                                *)
(***************************************************************************)
ReservedWords ==
  {"if", "in", "else", "for", "let", "var", "do", "new", "return", "this",
   "null", "typeof", "function", "while", "with", "case", "class", "const"}
BinaryOperators == {"&&", "||", "==", "!=", "in"}
EqualityOperators == {"==", "!="}

IsIdentifier(tok) ==
  /\ Len(tok) >= 1
  /\ Run(tok, 1, WordChars) = Len(tok)
  /\ Ch(tok, 1) \notin Digits
  /\ tok \notin ReservedWords

IsNumber(tok) ==
  /\ Len(tok) >= 1
  /\ Run(tok, 1, Digits) = Len(tok)
  /\ (Len(tok) = 1 \/ Ch(tok, 1) # "0")

IsPrimary(tok) == IsIdentifier(tok) \/ IsNumber(tok)

\* [a] or [a|b|...]: an array literal of one element.  The element of the
\* second form is a bitwise or, which the model does not compute: its inputs
\* use such an array for its truth value only.
IsArrayLiteral(tok) ==
  /\ Len(tok) >= 3
  /\ Ch(tok, 1) = "[" /\ Ch(tok, Len(tok)) = "]"
  /\ LET inner == SplitStr(SubSeq(tok, 2, Len(tok) - 1), "|")
     IN \A k \in 1..Len(inner) : IsPrimary(inner[k])

IsOperand(tok) == IsPrimary(tok) \/ IsArrayLiteral(tok)

NonEmpty(tok) == tok # ""
JSTokens(expr) ==
  SelectSeq(SplitStr(JoinStr(SplitStr(expr, "\t"), " "), " "), NonEmpty)

\* The parse of the expression: operand (operator operand)*.
ExprParses(toks) ==
  /\ Len(toks) % 2 = 1
  /\ \A k \in 1..Len(toks) :
       IF k % 2 = 1 THEN IsOperand(toks[k]) ELSE toks[k] \in BinaryOperators

\* The parse of the declarations: let <identifier> = "<text>"; with no
\* identifier declared twice and no text that ends its string literal.
DeclsParse(decls) ==
  /\ \A k \in 1..Len(decls) :
       /\ IsIdentifier(decls[k][1])
       /\ decls[k][1] \notin {"true", "false"}
       /\ \A i \in 1..Len(decls[k][2]) : Ch(decls[k][2], i) \notin {"\"", "\n", "\\"}
  /\ \A j, k \in 1..Len(decls) : j # k => decls[j][1] # decls[k][1]

\* An identifier is resolved in the declarations, then on the global object.
Resolve(name, decls, globals) ==
  IF name = "true" THEN Bool(TRUE)
  ELSE IF name = "false" THEN Bool(FALSE)
  ELSE IF name = "undefined" THEN Undefined
  ELSE IF \E k \in 1..Len(decls) : decls[k][1] = name
  THEN Str(Get(decls, name))
  ELSE IF \E k \in 1..Len(globals) : globals[k][1] = name
  THEN Get(globals, name)
  ELSE Thrown("ReferenceError")

EvalPrimary(tok, decls, globals) ==
  IF IsNumber(tok) THEN Num(tok) ELSE Resolve(tok, decls, globals)

ArrayOf(inner, v, decls, globals) ==
  IF \E k \in 1..Len(inner) : EvalPrimary(inner[k], decls, globals).t = "thrown"
  THEN Thrown("ReferenceError")
  ELSE IF Len(inner) = 1 /\ v.t # "undefined" THEN Arr(<<JSToString(v)>>)
  ELSE Arr(<<"">>)

ArrayLiteral(inner, decls, globals) ==
  ArrayOf(inner, EvalPrimary(inner[1], decls, globals), decls, globals)

EvalOperand(tok, decls, globals) ==
  IF IsArrayLiteral(tok)
  THEN ArrayLiteral(SplitStr(SubSeq(tok, 2, Len(tok) - 1), "|"), decls, globals)
  ELSE EvalPrimary(tok, decls, globals)

\* ToNumber of a string, as text: digits without leading zeros, or "NaN".
StringToNumber(s) ==
  LET z == Run(s, 1, {"0"})
  IN IF Run(s, 1, WhiteSpace) = Len(s) THEN "0"
     ELSE IF Run(s, 1, Digits) # Len(s) THEN "NaN"
     ELSE IF z = Len(s) THEN "0"
     ELSE SubSeq(s, z + 1, Len(s))

\* x == y (abstract equality) on the operand types of the model.
LooseEquals(x, y) ==
  CASE x.t = y.t /\ x.t \in {"string", "number", "boolean"} -> x.s = y.s
    [] x.t = "undefined" /\ y.t = "undefined" -> TRUE
    [] x.t = "undefined" \/ y.t = "undefined" -> FALSE
    [] x.t \in {"array", "object"} /\ y.t \in {"array", "object"} -> FALSE
    [] OTHER ->
         LET n(v) == CASE v.t = "number" -> v.s
                       [] v.t = "boolean" -> IF v.s = "true" THEN "1" ELSE "0"
                       [] OTHER -> StringToNumber(JSToString(v))
         IN IF x.t = "string" /\ y.t \in {"array", "object"} THEN x.s = JSToString(y)
            ELSE IF y.t = "string" /\ x.t \in {"array", "object"} THEN y.s = JSToString(x)
            ELSE n(x) # "NaN" /\ n(x) = n(y)

\* The position of the first operator of ops at or after k, or 0.
RECURSIVE FirstOperator(_, _, _)
FirstOperator(toks, ops, k) ==
  IF k > Len(toks) THEN 0
  ELSE IF toks[k] \in ops THEN k
  ELSE FirstOperator(toks, ops, k + 2)

\* The tokens before position k (all of them when k is 0), and those after.
Before(toks, k) == IF k = 0 THEN toks ELSE SubSeq(toks, 1, k - 1)
After(toks, k) == SubSeq(toks, k + 1, Len(toks))

\* key in obj: the indices and length of an array, the names of an object.
HasProperty(obj, key) ==
  IF obj.t = "array"
  THEN \/ key = "length"
       \/ Len(key) = 1 /\ key \in Digits /\ IndexOf("0123456789", key, 1) <= Len(obj.a)
  ELSE \E k \in 1..Len(obj.a) : obj.a[k] = key

\* operand (in operand)*, left to right: acc is the value so far, toks the
\* operators and operands still to the right of it.  A right operand that
\* is no object throws.
RECURSIVE EvalIn(_, _, _, _)
InStep(acc, rhs, toks, decls, globals) ==
  IF rhs.t = "thrown" THEN rhs
  ELSE IF rhs.t \notin {"array", "object"} THEN Thrown("TypeError")
  ELSE EvalIn(Bool(HasProperty(rhs, JSToString(acc))),
              SubSeq(toks, 3, Len(toks)), decls, globals)

EvalIn(acc, toks, decls, globals) ==
  IF acc.t = "thrown" \/ Len(toks) = 0 THEN acc
  ELSE InStep(acc, EvalOperand(toks[2], decls, globals), toks, decls, globals)

Relational(toks, decls, globals) ==
  EvalIn(EvalOperand(toks[1], decls, globals), Tail(toks), decls, globals)

\* relational (==|!= relational)*, left to right: acc is the value so far,
\* toks the operators and operands still to the right of it, k the position
\* in toks of the operator after the next (0 when there is none).
RECURSIVE EvalEquality(_, _, _, _)
EqualityStep(acc, op, rhs, rest, decls, globals) ==
  IF rhs.t = "thrown" THEN rhs
  ELSE EvalEquality(Bool((op = "==") = LooseEquals(acc, rhs)), rest, decls, globals)

EqualityAt(acc, k, toks, decls, globals) ==
  EqualityStep(acc, toks[1],
               Relational(SubSeq(toks, 2, IF k = 0 THEN Len(toks) ELSE k - 1),
                          decls, globals),
               IF k = 0 THEN <<>> ELSE SubSeq(toks, k, Len(toks)),
               decls, globals)

EvalEquality(acc, toks, decls, globals) ==
  IF acc.t = "thrown" \/ Len(toks) = 0 THEN acc
  ELSE EqualityAt(acc, FirstOperator(toks, EqualityOperators, 3), toks, decls, globals)

\* e1 && e2 && ...: the first falsy value, else the last value.
RECURSIVE EvalAnd(_, _, _)
AndStep(v, k, toks, decls, globals) ==
  IF k = 0 \/ v.t = "thrown" \/ ~ToBoolean(v) THEN v
  ELSE EvalAnd(After(toks, k), decls, globals)

AndOperandAt(k, lhs, decls, globals) ==
  EvalEquality(Relational(Before(lhs, k), decls, globals),
               IF k = 0 THEN <<>> ELSE SubSeq(lhs, k, Len(lhs)), decls, globals)

AndOperand(lhs, decls, globals) ==
  AndOperandAt(FirstOperator(lhs, EqualityOperators, 2), lhs, decls, globals)

AndAt(k, toks, decls, globals) ==
  AndStep(AndOperand(Before(toks, k), decls, globals), k, toks, decls, globals)

EvalAnd(toks, decls, globals) ==
  AndAt(FirstOperator(toks, {"&&"}, 2), toks, decls, globals)

\* e1 || e2 || ...: the first truthy value, else the last value.
RECURSIVE EvalOr(_, _, _)
OrStep(v, k, toks, decls, globals) ==
  IF k = 0 \/ v.t = "thrown" \/ ToBoolean(v) THEN v
  ELSE EvalOr(After(toks, k), decls, globals)

OrAt(k, toks, decls, globals) ==
  OrStep(EvalAnd(Before(toks, k), decls, globals), k, toks, decls, globals)

EvalOr(toks, decls, globals) ==
  OrAt(FirstOperator(toks, {"||"}, 2), toks, decls, globals)

\* if(v){return true}else{return false}, or the exception raised on the way.
Completion(v) == IF v.t = "thrown" THEN v ELSE Bool(ToBoolean(v))

RunTokens(decls, toks, globals) ==
  IF ~DeclsParse(decls) \/ ~ExprParses(toks) THEN Thrown("SyntaxError")
  ELSE Completion(EvalOr(toks, decls, globals))

\* Function(`${variables} if(${temp_expr}){return true}else{return false}`)()
RunFunction(decls, temp_expr, globals) ==
  RunTokens(decls, JSTokens(temp_expr), globals)

(***************************************************************************)
(* class TemplateConditional and class TemplateLoop.                       *)
(***************************************************************************)
\* The properties of window that an expression can name.
WindowGlobals(wr) == << <<"replacements", ObjectOf(wr)>> >>

\* The declarations _EvaluateClause accumulates in `variables`: one for
\* every bare tag matched, in match order.
RECURSIVE ClauseVariables(_, _)
ClauseVariables(tags, wr) ==
  IF Len(tags) = 0 THEN <<>>
  ELSE LET value == tags[1]
           rest == ClauseVariables(Tail(tags), wr)
       IN IF IsBareTag(value)
          THEN << <<SubSeq(value, 2, Len(value) - 1), JSToString(Get(wr, value))>> >> \o rest
          ELSE rest

\* temp_expr after the map over the matches: every iteration assigns it from
\* expr, so the last match decides it.
ClauseTempExpr(expr, tags, wr) ==
  LET value == tags[Len(tags)]
  IN IF IsBareTag(value)
     THEN SplitJoin(expr, value, Str(SubSeq(value, 2, Len(value) - 1)))
     ELSE SplitJoin(expr, value, Get(wr, value))

\* expr.replace(" and ", " && "), then expr.replace(" or ", " || ")
NormalizeOperators(expr) ==
  ReplaceFirst(ReplaceFirst(expr, " and ", " && "), " or ", " || ")

\* _EvaluateClause after the two replace calls: expr is the normalized
\* expression, tags what expr.match(this.TAG) returns.
ClauseOfTags(expr, tags, wr) ==
  IF IndexOf(expr, " in ", 1) # 0 THEN Thrown("NotImplemented")
  ELSE IF Len(tags) = 0 THEN Thrown("TypeError")
  ELSE RunFunction(ClauseVariables(tags, wr),
                   ClauseTempExpr(expr, tags, wr), WindowGlobals(wr))

ClauseOfNormalized(expr, wr) == ClauseOfTags(expr, MatchTags(expr, 1), wr)

\* TemplateConditional._EvaluateClause(expr): Bool(..) or Thrown(..).
EvaluateClause(expr, wr) == ClauseOfNormalized(NormalizeOperators(expr), wr)

\* A branch object { index, expr, istrue }; an absent property is "undefined".
Branch(index, expr, istrue) == [index |-> index, expr |-> expr, istrue |-> istrue]

\* new TemplateConditional(expr, index), after NewBranch.
NewTemplateConditional(expr, index) ==
  [type |-> "TemplateConditional", branches |-> <<Branch(index, expr, "undefined")>>]

\* new TemplateLoop(expr, index), after NewBranch.
NewTemplateLoop(expr, index) ==
  [type |-> "TemplateLoop", branches |-> <<Branch(index, expr, "undefined")>>]

\* The value of an array slot that holds no object.
NoObject == [type |-> "undefined", branches |-> <<>>]

\* arr[arr.length - 1]
Last(arr) == IF Len(arr) = 0 THEN NoObject ELSE arr[Len(arr)]

\* arr.pop(), for its effect on arr.
Pop(arr) == IF Len(arr) = 0 THEN arr ELSE SubSeq(arr, 1, Len(arr) - 1)

\* arr[arr.length - 1] = obj, when the array is not empty.
SetLast(arr, obj) == [arr EXCEPT ![Len(arr)] = obj]

(***************************************************************************)
(* class Template: the state of one instance, and window.replacements.     *)
(***************************************************************************)
VARIABLES
  pc,                  \* where the constructor stands
  template_arg,        \* the constructor's argument template
  replacements_arg,    \* the constructor's argument replacements
  window_replacements, \* window.replacements
  nodes,               \* template.split(this.FUNCTION)
  index,               \* the index of the next node nodes.map visits
  tmp,                 \* this.tmp, as <<index, nodes>> pairs in key order
  scopes,              \* this.scopes
  openScopes,          \* this.openScopes
  template,            \* this.template
  thrown               \* the exception that left the constructor, or "none"

templateVars == <<pc, template_arg, replacements_arg, window_replacements,
                  nodes, index, tmp, scopes, openScopes, template, thrown>>

(***************************************************************************)
(* The rest of the page: the request pools of ud.ajax and the page cache.  *)
(* A request is known by its id, the value of proxy.count when it was      *)
(* added.                                                                  *)
(***************************************************************************)
VARIABLES
  count,               \* proxy.count
  updates_active,      \* updates.active: for a hostname, the ids in order
  updates_queue,       \* updates.queue: for a hostname, the ids in order
  updates_sent,        \* for a hostname, the ids in the order of req.send()
  updates_done,        \* the update requests whose xhr reached readyState 4
  requests,            \* the override and poll requests: url, xhr state
  overrides_active,    \* overrides.active: url -> id
  polls_active,        \* polls.active: url -> id
  polls_interval,      \* polls.interval: url -> timer handle
  timers,              \* the handles of the intervals window still runs
  localStorage,        \* window.localStorage: key -> stored page
  previous_key,        \* cacheHandler.previous_key, "null" for null
  clock                \* new Date().getTime()

ajaxVars == <<count, updates_active, updates_queue, updates_sent, updates_done,
              requests, overrides_active, polls_active, polls_interval, timers>>
cacheVars == <<localStorage, previous_key, clock>>

(***************************************************************************)
(* uweb_sparserenderer, the document it renders into, and the server's     *)
(* current hash of each template.                                          *)
(***************************************************************************)
VARIABLES
  navigations,         \* the calls of DoClick and DoSubmit and how far they got
  templates,           \* uweb_sparserenderer.templates: path -> text
  history,             \* the states given to window.history.pushState
  body,                \* document.body.innerHTML
  template_hash        \* server: template path -> its hash now

rendererVars == <<navigations, templates, history, body, template_hash>>
hostVars == <<ajaxVars, cacheVars, rendererVars>>
vars == <<templateVars, ajaxVars, cacheVars, rendererVars>>

Hostnames == {"a.example", "b.example"}

\* ud.ajax before any call: var overrides, updates, polls, proxy.
AjaxIdle ==
  /\ count = 0
  /\ updates_active = [h \in Hostnames |-> << >>]
  /\ updates_queue = [h \in Hostnames |-> << >>]
  /\ updates_sent = [h \in Hostnames |-> << >>]
  /\ updates_done = {}
  /\ requests = << >>
  /\ overrides_active = << >>
  /\ polls_active = << >>
  /\ polls_interval = << >>
  /\ timers = {}

\* The template paths of the site.
TemplatePaths == {"/a.html", "/b.html"}

\* uweb_sparserenderer after Load, on a page the server rendered.
RendererIdle ==
  /\ navigations = << >>
  /\ templates = << >>
  /\ history = << >>
  /\ body = ""
  /\ template_hash = [path \in TemplatePaths |-> "v1"]

\* cacheHandler on an empty store.
CacheIdle ==
  /\ localStorage = << >>
  /\ previous_key = "null"
  /\ clock = 0

(***************************************************************************)
(* The inputs of the model: templates put together from up to MaxPieces    *)
(* pieces, the templates of the engine's documented examples, and a set of *)
(* replacement objects.                                                    *)
(***************************************************************************)
Pieces ==
  {"A", "[x]", "{{ if [x] }}", "{{ elif [y] }}", "{{ else }}", "{{ endif }}",
   "{{ for item in [items] }}", "{{ endfor }}", "{{ foo }}"}

RECURSIVE Concatenations(_)
Concatenations(n) ==
  IF n = 0 THEN {""}
  ELSE LET shorter == Concatenations(n - 1)
       IN shorter \cup {t \o p : t \in shorter, p \in Pieces}

IfElseTemplate == "{{ if [x] }}A{{ else }}B{{ endif }}"
IfElifElseTemplate == "{{ if [x] }}A{{ elif [y] }}B{{ else }}C{{ endif }}"
ForTemplate == "{{ for item in [items] }}[item];{{ endfor }}"
ForIfTemplate ==
  "{{ for item in [items] }}{{ if [item] }}A{{ else }}B{{ endif }}{{ endfor }}"
MismatchedTemplate == "{{ if [x] }}A{{ endfor }}"
MultiLineTemplate == "{{ if [x]\nor [y] }}A{{ endif }}"
HeaderWithoutInTemplate == "{{ for item }}A{{ endfor }}"
TabbedInTemplate == "{{ if [x]\tin\treplacements }}A{{ endif }}"
GlobalNameTemplate == "{{ if [x] and replacements }}A{{ endif }}"
DeadElifTemplate == "{{ if [x] }}A{{ elif [y] in [items] }}B{{ endif }}"
TwoOperatorsTemplate == "{{ if [x] or [y] or [items] }}A{{ endif }}"
TwoTagsTemplate == "{{ if [x] and [y] }}A{{ endif }}"
SingleIfTemplate == "{{ if [x] }}A{{ endif }}"
LiteralGuardTemplate == "{{ if 1 == 1 }}A{{ endif }}"
ForInsideIfTemplate == "{{ if [x] }}{{ for item in [items] }}A{{ endfor }}{{ endif }}"
IfInsideForTemplate == "{{ for item in [items] }}{{ if [x] }}A{{ endif }}{{ endfor }}"
ElifAfterElseTemplate == "{{ if [x] }}A{{ else }}B{{ elif [y] }}C{{ endif }}"

ExampleTemplates ==
  {IfElseTemplate, IfElifElseTemplate, ForTemplate, ForIfTemplate,
   MismatchedTemplate, MultiLineTemplate, HeaderWithoutInTemplate,
   TabbedInTemplate, GlobalNameTemplate, DeadElifTemplate,
   TwoOperatorsTemplate, TwoTagsTemplate, SingleIfTemplate,
   LiteralGuardTemplate, ForInsideIfTemplate, IfInsideForTemplate,
   ElifAfterElseTemplate,
   "{{ if [x] }}A{{ endif }}{{ for item in [items] }}{{ else }}B{{ endfor }}",
   "{{ if [x] in [items] }}A{{ endif }}",
   "{{ if [x|len] == 0 }}A{{ endif }}",
   "{{  If   [x]  }}A{{endif}}",
   "a[x]b[x]c [y]",
   "{{ unterminated [x]"}

Templates == Concatenations(MaxPieces) \cup ExampleTemplates

ReplacementMaps ==
  { << >>,
    << <<"[x]", Str("true")>>, <<"[y]", Str("true")>>,
       <<"[items]", Arr(<<"a", "", "c">>)>> >>,
    << <<"[x]", Str("")>>, <<"[y]", Str("true")>>, <<"[items]", Arr(<< >>)>> >>,
    << <<"[x]", Str("")>>, <<"[y]", Str("")>>, <<"[x|len]", Num("0")>> >>,
    << <<"[x]", Bool(FALSE)>>, <<"[y]", Num("0")>> >>,
    << <<"[x]", Str("[y]")>>, <<"[y]", Str("v")>> >>,
    << <<"A", Str("[x]")>>, <<"[x]", Str("say \"hi\"")>> >> }

(***************************************************************************)
(* The constructor of Template, one action for each step and each callback *)
(* of nodes.map.                                                           *)
(***************************************************************************)
TemplateIdle ==
  /\ pc = "idle"
  /\ template_arg = ""
  /\ replacements_arg = << >>
  /\ window_replacements = << >>
  /\ nodes = << >>
  /\ index = 0
  /\ tmp = << >>
  /\ scopes = << >>
  /\ openScopes = << >>
  /\ template = ""
  /\ thrown = "none"

Init == TemplateIdle /\ AjaxIdle /\ CacheIdle /\ RendererIdle

\* new Template(t, r) up to the call of nodes.map in AddString.
Construct(t, r) ==
  /\ pc = "idle"
  /\ template_arg' = t
  /\ replacements_arg' = r
  /\ window_replacements' = r
  /\ nodes' = SplitFunction(t, 1, 1)
  /\ index' = 0
  /\ tmp' = << >>
  /\ scopes' = << >>
  /\ openScopes' = << >>
  /\ template' = ""
  /\ thrown' = "none"
  /\ pc' = "map"
  /\ UNCHANGED hostVars

\* The node nodes.map visits next, its keyword and its arguments.
Node == nodes[index + 1]
Func == Capitalize(Head(SplitStr(Node, " ")))
Args == JoinStr(Tail(SplitStr(Node, " ")), " ")
AtText == pc = "map" /\ index < Len(nodes) /\ index % 2 = 0
AtFunction(func) == pc = "map" /\ index < Len(nodes) /\ index % 2 = 1 /\ Func = func

\* for(let property in this.tmp) this.template += this.tmp[property].nodes
RECURSIVE ConcatNodes(_)
ConcatNodes(t) ==
  IF Len(t) = 0 THEN "" ELSE t[1][2] \o ConcatNodes(Tail(t))

\* An exception that leaves the constructor after the text met so far has
\* been made the instance's template.
ThrowWithPartialOutput(kind) ==
  /\ pc' = "threw"
  /\ thrown' = kind
  /\ template' = ConcatNodes(tmp)
  /\ UNCHANGED <<template_arg, replacements_arg, window_replacements,
                 nodes, index, tmp, scopes, openScopes>>
  /\ UNCHANGED hostVars

\* An exception leaves the constructor: nothing after it runs.
Throw(kind) ==
  /\ pc' = "threw"
  /\ thrown' = kind
  /\ UNCHANGED <<template_arg, replacements_arg, window_replacements,
                 nodes, index, tmp, scopes, openScopes, template>>
  /\ UNCHANGED hostVars

\* The callback returns and nodes.map goes on.
Continue ==
  /\ index' = index + 1
  /\ UNCHANGED <<pc, template_arg, replacements_arg,
                 window_replacements, nodes, template, thrown>>
  /\ UNCHANGED hostVars

ExtendText ==
  /\ AtText
  /\ tmp' = Append(tmp, <<index, Node>>)
  /\ UNCHANGED <<scopes, openScopes>>
  /\ Continue

KnownFunctions == {"If", "For", "Endfor", "Elif", "Else", "Endif"}

\* this[`_TemplateConstruct${func}`] is undefined: calling it throws.
ExtendFunctionUnknown ==
  /\ pc = "map" /\ index < Len(nodes) /\ index % 2 = 1
  /\ Func \notin KnownFunctions
  /\ Throw("TypeError")

\* _StartScope(scope)
StartScope(scope) ==
  IF Len(openScopes) > 0
  THEN /\ openScopes' = SetLast(openScopes,
            [Last(openScopes) EXCEPT !.branches = Append(@, scope)])
       /\ scopes' = scopes
  ELSE /\ scopes' = Append(scopes, scope)
       /\ openScopes' = openScopes

\* new TemplateConditional(expr, index): NewBranch evaluates the clause, and
\* unless that throws the new object goes to _StartScope.
ConditionalNewBranch(isTrue, expr) ==
  IF isTrue.t = "thrown" THEN Throw(isTrue.s)
  ELSE /\ StartScope(NewTemplateConditional(expr, index))
       /\ tmp' = tmp
       /\ Continue

TemplateConstructIf ==
  /\ AtFunction("If")
  /\ ConditionalNewBranch(EvaluateClause(Args, window_replacements), Args)

TemplateConstructFor ==
  /\ AtFunction("For")
  /\ openScopes' = Append(openScopes, NewTemplateLoop(Args, index))
  /\ UNCHANGED <<scopes, tmp>>
  /\ Continue

TemplateConstructEndfor ==
  /\ AtFunction("Endfor")
  /\ scopes' = Append(scopes, Last(openScopes))
  /\ openScopes' = Pop(openScopes)
  /\ tmp' = tmp
  /\ Continue

\* TemplateConditional.Elif(index, expr) on the object top.
ConditionalElif(isTrue, top, expr) ==
  IF isTrue.t = "thrown" THEN Throw(isTrue.s)
  ELSE /\ scopes' = SetLast(scopes,
            [top EXCEPT !.branches = Append(@, Branch(index, expr, isTrue.s))])
       /\ UNCHANGED <<openScopes, tmp>>
       /\ Continue

TemplateConstructElif ==
  /\ AtFunction("Elif")
  /\ IF Last(scopes).type # "TemplateConditional" THEN Throw("TypeError")
     ELSE ConditionalElif(EvaluateClause(Args, window_replacements), Last(scopes), Args)

TemplateConstructElse ==
  /\ AtFunction("Else")
  /\ LET top == Last(scopes)
     IN IF top.type # "TemplateConditional" THEN Throw("TypeError")
        ELSE /\ scopes' = SetLast(scopes,
                  [top EXCEPT !.branches = Append(@, Branch(index, "undefined", "undefined"))])
             /\ UNCHANGED <<openScopes, tmp>>
             /\ Continue

TemplateConstructEndif ==
  /\ AtFunction("Endif")
  /\ UNCHANGED <<scopes, openScopes, tmp>>
  /\ Continue

\* _EvaluateScope(): the map over this.scopes changes nothing.
EvaluateScope ==
  /\ pc = "map" /\ index = Len(nodes)
  /\ pc' = "evaluated"
  /\ UNCHANGED <<template_arg, replacements_arg, window_replacements,
                 nodes, index, tmp, scopes, openScopes, template, thrown>>
  /\ UNCHANGED hostVars

\* for(let replacement in replacements)
\*   template = template.split(replacement).join(replacements[replacement])
RECURSIVE ReplaceAll(_, _)
ReplaceAll(text, r) ==
  IF Len(r) = 0 THEN text
  ELSE ReplaceAll(SplitJoin(text, r[1][1], r[1][2]), Tail(r))

\* The rest of the constructor after AddString returns.
BuildTemplate ==
  /\ pc = "evaluated"
  /\ template' = ReplaceAll(ConcatNodes(tmp), replacements_arg)
  /\ pc' = "done"
  /\ UNCHANGED <<template_arg, replacements_arg, window_replacements,
                 nodes, index, tmp, scopes, openScopes, thrown>>
  /\ UNCHANGED hostVars

\* The caller drops the instance, finished or not: a later call of the
\* constructor starts from a new one.  window.replacements stays as it is.
Release ==
  /\ pc \in {"done", "threw"}
  /\ pc' = "idle"
  /\ template_arg' = ""
  /\ replacements_arg' = << >>
  /\ nodes' = << >>
  /\ index' = 0
  /\ tmp' = << >>
  /\ scopes' = << >>
  /\ openScopes' = << >>
  /\ template' = ""
  /\ thrown' = "none"
  /\ UNCHANGED window_replacements
  /\ UNCHANGED hostVars

Next ==
  \/ \E t \in Templates, r \in ReplacementMaps : Construct(t, r)
  \/ ExtendText
  \/ ExtendFunctionUnknown
  \/ TemplateConstructIf
  \/ TemplateConstructFor
  \/ TemplateConstructEndfor
  \/ TemplateConstructElif
  \/ TemplateConstructElse
  \/ TemplateConstructEndif
  \/ EvaluateScope
  \/ BuildTemplate
  \/ Release

Spec == Init /\ [][Next]_vars

\* The constructor is synchronous code: once called it runs until it returns
\* or throws.
RenderStep ==
  \/ ExtendText
  \/ ExtendFunctionUnknown
  \/ TemplateConstructIf
  \/ TemplateConstructFor
  \/ TemplateConstructEndfor
  \/ TemplateConstructElif
  \/ TemplateConstructElse
  \/ TemplateConstructEndif
  \/ EvaluateScope
  \/ BuildTemplate

\* Weak fairness of RenderStep, with ENABLED <<RenderStep>>_vars written as
\* the states where it holds: those where the constructor is running.
RenderRunning == pc \in {"map", "evaluated"}
LiveSpec == Spec /\ ([]<><<RenderStep>>_vars \/ []<>~RenderRunning)

(***************************************************************************)
(* What the engine's description expects of a render, for the properties   *)
(* below.                                                                  *)
(***************************************************************************)
\* The keywords of the directives among the first n nodes, in order.
Keywords(n) ==
  [k \in 1..(n \div 2) |-> Capitalize(Head(SplitStr(nodes[2 * k], " ")))]

\* The blocks left open by a run of keywords, innermost last; <<"error">>
\* once a closing directive met a block of the other kind or no block.
RECURSIVE OpenBlocks(_, _)
OpenBlocks(kws, stack) ==
  IF Len(kws) = 0 \/ stack = <<"error">> THEN stack
  ELSE LET kw == Head(kws)
           top == IF Len(stack) = 0 THEN "none" ELSE stack[Len(stack)]
       IN OpenBlocks(Tail(kws),
            CASE kw \in {"If", "For"} -> Append(stack, kw)
              [] kw = "Endif" -> IF top = "If" THEN Pop(stack) ELSE <<"error">>
              [] kw = "Endfor" -> IF top = "For" THEN Pop(stack) ELSE <<"error">>
              [] OTHER -> stack)

\* Some block of the first n nodes is closed by the closing directive of the
\* other kind.
RECURSIVE WrongClose(_, _)
WrongClose(kws, stack) ==
  IF Len(kws) = 0 THEN FALSE
  ELSE LET kw == Head(kws)
           top == IF Len(stack) = 0 THEN "none" ELSE stack[Len(stack)]
       IN \/ kw = "Endif" /\ top = "For"
          \/ kw = "Endfor" /\ top = "If"
          \/ WrongClose(Tail(kws),
               IF kw \in {"If", "For"} THEN Append(stack, kw)
               ELSE IF kw \in {"Endif", "Endfor"} THEN Pop(stack)
               ELSE stack)

\* The truth of a guard that is one bare tag.
GuardTrue(tag) == EvaluateClause(tag, replacements_arg) = Bool(TRUE)

\* C1: for {{ if [x] }}A{{ else }}B{{ endif }} the render is the if-body when
\* the guard is true and the else-body when it is false.
C1_IfElseRendersLiveBranch ==
  (pc = "done" /\ template_arg = IfElseTemplate)
    => template = ReplaceAll(IF GuardTrue("[x]") THEN "A" ELSE "B", replacements_arg)

\* C2: for an if/elif/else chain the render holds the body of one branch
\* only, the first whose guard is true, the else-body when none is.
C2_FirstTrueBranchOnly ==
  (pc = "done" /\ template_arg = IfElifElseTemplate)
    => template = ReplaceAll(IF GuardTrue("[x]") THEN "A"
                             ELSE IF GuardTrue("[y]") THEN "B" ELSE "C",
                             replacements_arg)

\* The body [item]; once for every element, the loop variable bound to it.
RECURSIVE LoopExpansion(_)
LoopExpansion(items) ==
  IF Len(items) = 0 THEN ""
  ELSE Head(items) \o ";" \o LoopExpansion(Tail(items))

\* C3: a loop over a sequence of n elements renders its body n times in
\* sequence order, and nothing for the empty sequence.
C3_LoopRendersBodyPerElement ==
  (/\ pc = "done"
   /\ template_arg = ForTemplate
   /\ Get(replacements_arg, "[items]").t = "array")
    => template = LoopExpansion(Get(replacements_arg, "[items]").a)

\* A for the elements that are true as a guard, B for the others.
RECURSIVE BranchPerElement(_)
BranchPerElement(items) ==
  IF Len(items) = 0 THEN ""
  ELSE (IF ToBoolean(Str(Head(items))) THEN "A" ELSE "B")
         \o BranchPerElement(Tail(items))

\* C4: an if inside a for is decided once per iteration, on the binding of
\* that iteration: the render ends with one branch body per element.
C4_GuardPerIteration ==
  (/\ pc \in {"done", "threw"}
   /\ template_arg = ForIfTemplate
   /\ Get(replacements_arg, "[items]").t = "array")
    => /\ pc = "done"
       /\ template = BranchPerElement(Get(replacements_arg, "[items]").a)

\* C5: a template with a block closed by the wrong closing directive never
\* completes with an output.
C5_WrongCloseFails ==
  pc = "done" => ~WrongClose(Keywords(Len(nodes)), << >>)

\* The directives of the template: each from a {{ to the first }} after it.
DirectiveTexts(t) ==
  {SubSeq(t, ij[1], ij[2] + 1) :
     ij \in {ij \in (1..Len(t)) \X (1..Len(t)) :
               /\ StartsAt(t, ij[1], "{{")
               /\ ij[2] >= ij[1] + 2
               /\ StartsAt(t, ij[2], "}}")
               /\ \A m \in (ij[1] + 2)..(ij[2] - 1) : ~StartsAt(t, m, "}}")}}
HasDirective(t) ==
  \E i, j \in 1..Len(t) : j >= i + 2 /\ StartsAt(t, i, "{{") /\ StartsAt(t, j, "}}")

\* Every occurrence of key in s replaced by val, scanning left to right.
RECURSIVE Substitute(_, _, _, _)
Substitute(s, key, val, i) ==
  IF i > Len(s) THEN ""
  ELSE IF key # "" /\ StartsAt(s, i, key)
  THEN val \o Substitute(s, key, val, i + Len(key))
  ELSE Ch(s, i) \o Substitute(s, key, val, i + 1)

\* The keys of r substituted one after the other, in the order of r.
RECURSIVE SubstituteKeys(_, _)
SubstituteKeys(s, r) ==
  IF Len(r) = 0 THEN s
  ELSE SubstituteKeys(Substitute(s, r[1][1], JSToString(r[1][2]), 1), Tail(r))

KeyOccurs(t, r) == \E k \in 1..Len(r) : IndexOf(t, r[k][1], 1) # 0

\* C6: a template without directive renders as itself with every occurrence
\* of every replacement key substituted by its value, key after key; it
\* renders unchanged when none of the keys occurs in it.
C6_PlainTextSubstituted ==
  (pc = "done" /\ ~HasDirective(template_arg))
    => /\ template = SubstituteKeys(template_arg, replacements_arg)
       /\ ~KeyOccurs(template_arg, replacements_arg) => template = template_arg

C6_Witness ==
  /\ pc = "done"
  /\ ~HasDirective(template_arg)
  /\ Len(template_arg) > 0
  /\ KeyOccurs(template_arg, replacements_arg)
  /\ template # template_arg

\* The texts of tmp occur in s one after the other, from position i on.
RECURSIVE InOrder(_, _, _)
InOrder(texts, s, i) ==
  IF Len(texts) = 0 THEN TRUE
  ELSE LET at == IndexOf(s, texts[1][2], i)
       IN at # 0 /\ InOrder(Tail(texts), s, at + Len(texts[1][2]))

\* C7: a render that completes holds the literal text in document order and
\* no directive of the template.
C7_NoDirectiveTextInOutput ==
  (pc = "done" /\ replacements_arg = << >>)
    => /\ InOrder(tmp, template, 1)
       /\ \A d \in DirectiveTexts(template_arg) : IndexOf(template, d, 1) = 0

\* C8: a directive with an unknown keyword is rejected, and the rejection is
\* a reported outcome: the render neither completes with an output nor ends
\* with an exception that leaves the constructor.
C8_UnknownDirectiveReported ==
  (index < Len(nodes) /\ index % 2 = 1 /\ Func \notin KnownFunctions)
    => pc \notin {"done", "threw"}

\* C9: a render completes only if every block opened has been closed.
C9_CompletesOnlyWhenAllClosed ==
  pc = "done" => OpenBlocks(Keywords(Len(nodes)), << >>) = << >>

\* The blocks open when the node at index is visited.
OpenHere == OpenBlocks(Keywords(index), << >>)

\* C10: an elif or else met while no block is open, or while the innermost
\* open block is a loop, fails and adds no branch to any object.
C10_ElifElseNeedOpenConditional ==
  [][(/\ AtFunction("Elif") \/ AtFunction("Else")
      /\ OpenHere = << >> \/ Last(OpenHere) = "For")
       => (pc' = "threw" /\ scopes' = scopes /\ openScopes' = openScopes)]_vars

\* A loop header of the form <itemName> in <sourceExpr>.
WellFormedLoopHeader(args) ==
  LET words == SelectSeq(SplitStr(args, " "), NonEmpty)
  IN Len(words) >= 3 /\ words[2] = "in"

\* C11: a for directive whose header has no in keyword fails and pushes no
\* loop onto the open scopes.
C11_MalformedLoopHeaderFails ==
  [][(AtFunction("For") /\ ~WellFormedLoopHeader(Args))
       => (pc' = "threw" /\ openScopes' = openScopes)]_vars

\* The expression holds the word in, standing alone between white space.
ContainsWordIn(expr) ==
  \E k \in 1..Len(JSTokens(expr)) : JSTokens(expr)[k] = "in"

\* C12: the evaluation of an if or elif guard that holds the membership word
\* in fails: the step at such a directive ends the render with an error.
C12_MembershipGuardFails ==
  [][((AtFunction("If") \/ AtFunction("Elif")) /\ ContainsWordIn(Args))
       => pc' = "threw"]_vars

\* Some tag of the expression is no key of the replacements supplied.
HasUnresolvedTag(expr) ==
  \E k \in 1..Len(MatchTags(expr, 1)) :
    \A j \in 1..Len(replacements_arg) : replacements_arg[j][1] # MatchTags(expr, 1)[k]

\* C13: a guard that names a tag absent from the replacements makes the
\* render fail: the step at its directive does not go on with a boolean.
C13_UnresolvedTagFails ==
  [][((AtFunction("If") \/ AtFunction("Elif")) /\ HasUnresolvedTag(Args))
       => pc' = "threw"]_vars

\* The guard evaluated with the replacements wr while the global object has
\* the properties globals.
GuardOfTags(expr, tags, wr, globals) ==
  IF IndexOf(expr, " in ", 1) # 0 THEN Thrown("NotImplemented")
  ELSE IF Len(tags) = 0 THEN Thrown("TypeError")
  ELSE RunFunction(ClauseVariables(tags, wr), ClauseTempExpr(expr, tags, wr), globals)
GuardOfNormalized(expr, wr, globals) ==
  GuardOfTags(expr, MatchTags(expr, 1), wr, globals)
GuardUnder(expr, wr, globals) ==
  GuardOfNormalized(NormalizeOperators(expr), wr, globals)

\* C14: what the evaluation of a guard yields is what it yields with the
\* same expression and replacements where the global object has no property
\* to name: no identifier is resolved against global state.
C14_GuardIgnoresGlobalState ==
  (AtFunction("If") \/ AtFunction("Elif"))
    => EvaluateClause(Args, window_replacements)
         = GuardUnder(Args, window_replacements, << >>)

\* C15: a render writes no global variable: window.replacements is after
\* every step of a render what it was before it.
C15_RenderWritesNoGlobal ==
  [][window_replacements' = window_replacements]_vars

\* C16: a render ends, and ends in one of two ways: with an output and no
\* error, or with an error and no output, not even the text met before the
\* error.
C16_ExactlyOneOutcome ==
  /\ [](pc = "done" => thrown = "none")
  /\ [](pc = "threw" => thrown # "none" /\ template = "")
  /\ (pc = "map" ~> pc \in {"done", "threw"})

C16_Witness ==
  /\ pc = "threw"
  /\ ConcatNodes(tmp) # ""
  /\ template = ""

\* C17: with the guard of the if true, the elif guard [y] in [items], whose
\* evaluation raises an error, is not evaluated: the render completes.
C17_DeadGuardNotEvaluated ==
  (/\ pc \in {"done", "threw"}
   /\ template_arg = DeadElifTemplate
   /\ GuardTrue("[x]"))
    => pc = "done"

\* The number of directives of t from position i on: each runs from a {{ to
\* the first }} after it, and the next is looked for behind it.
RECURSIVE CountDirectives(_, _)
CountDirectives(t, i) ==
  IF i > Len(t) THEN 0
  ELSE IF StartsAt(t, i, "{{") /\ IndexOf(t, "}}", i + 2) # 0
  THEN 1 + CountDirectives(t, IndexOf(t, "}}", i + 2) + 2)
  ELSE CountDirectives(t, i + 1)

\* C18: a template of k directives is split into 2k+1 segments, and the
\* segments at the even indices (counted from 0) are literal text: they
\* hold no directive.
C18_SegmentsAlternate ==
  pc # "idle"
    => /\ Len(nodes) = 2 * CountDirectives(template_arg, 1) + 1
       /\ \A k \in 1..Len(nodes) : k % 2 = 1 => ~HasDirective(nodes[k])

\* The expression holds the word w, standing alone between white space.
ContainsWord(expr, w) ==
  \E k \in 1..Len(JSTokens(expr)) : JSTokens(expr)[k] = w

\* C19: after the normalization of a guard no word and and no word or is
\* left in it, however many it had.
C19_EveryWordOperatorReplaced ==
  (AtFunction("If") \/ AtFunction("Elif"))
    => /\ ~ContainsWord(NormalizeOperators(Args), "and")
       /\ ~ContainsWord(NormalizeOperators(Args), "or")

\* temp_expr and variables as _EvaluateClause hands them to Function, for a
\* normalized expression that holds a tag.
TempExprOfNormalized(expr, wr) == ClauseTempExpr(expr, MatchTags(expr, 1), wr)
TempExprOf(expr, wr) == TempExprOfNormalized(NormalizeOperators(expr), wr)
VariablesOfNormalized(expr, wr) == ClauseVariables(MatchTags(expr, 1), wr)
VariablesOf(expr, wr) == VariablesOfNormalized(NormalizeOperators(expr), wr)
SubstitutionRuns(expr) ==
  /\ IndexOf(NormalizeOperators(expr), " in ", 1) = 0
  /\ MatchTags(NormalizeOperators(expr), 1) # << >>

\* Every bare tag of the expression has its declaration.
EveryBareTagBound(tags, decls) ==
  \A k \in 1..Len(tags) :
    IsBareTag(tags[k]) =>
      \E j \in 1..Len(decls) : decls[j][1] = SubSeq(tags[k], 2, Len(tags[k]) - 1)

\* C20: the expression handed to the evaluation holds no tag any more, and
\* every bare tag of the guard has a binding.
C20_EveryTagRewritten ==
  ((AtFunction("If") \/ AtFunction("Elif")) /\ SubstitutionRuns(Args))
    => /\ MatchTags(TempExprOf(Args, window_replacements), 1) = << >>
       /\ EveryBareTagBound(MatchTags(NormalizeOperators(Args), 1),
                            VariablesOf(Args, window_replacements))

\* C21: a guard without any tag that is an expression with a boolean value
\* evaluates to that value.
C21_TagFreeGuardEvaluated ==
  (/\ AtFunction("If") \/ AtFunction("Elif")
   /\ MatchTags(NormalizeOperators(Args), 1) = << >>
   /\ RunFunction(<< >>, NormalizeOperators(Args), << >>).t = "boolean")
    => EvaluateClause(Args, window_replacements)
         = RunFunction(<< >>, NormalizeOperators(Args), << >>)

\* The expression is one bare tag that is a key of the replacements.
IsBoundBareTag(expr, wr) ==
  /\ MatchTags(expr, 1) = <<expr>>
  /\ IsBareTag(expr)
  /\ \E k \in 1..Len(wr) : wr[k][1] = expr

\* C22: a guard that is one bare tag is true exactly when the value bound to
\* the tag is truthy.
C22_BareTagTruthiness ==
  (/\ AtFunction("If") \/ AtFunction("Elif")
   /\ IsBoundBareTag(Args, window_replacements))
    => EvaluateClause(Args, window_replacements)
         = Bool(ToBoolean(Get(window_replacements, Args)))

\* The number of blocks among the keywords that are opened while no block
\* is open; depth is the number of blocks open before the first keyword.
RECURSIVE TopLevelBlocks(_, _)
TopLevelBlocks(kws, depth) ==
  IF Len(kws) = 0 THEN 0
  ELSE IF Head(kws) \in {"If", "For"}
  THEN (IF depth = 0 THEN 1 ELSE 0) + TopLevelBlocks(Tail(kws), depth + 1)
  ELSE IF Head(kws) \in {"Endif", "Endfor"}
  THEN TopLevelBlocks(Tail(kws), IF depth = 0 THEN 0 ELSE depth - 1)
  ELSE TopLevelBlocks(Tail(kws), depth)

\* C23: after a template whose blocks are all closed in order, the top-level
\* list holds the blocks opened while no block was open, and no other: a
\* block opened inside another is no top-level node.
C23_NestedBlockIsChild ==
  (pc = "done" /\ OpenBlocks(Keywords(Len(nodes)), << >>) = << >>)
    => Len(scopes) = TopLevelBlocks(Keywords(Len(nodes)), 0)

\* A branch pushed by Else: it has no expr.
IsElseBranch(branch) == branch.expr = "undefined"

\* In the conditional an else branch is the last branch.
ElseIsLast(object) ==
  object.type = "TemplateConditional"
    => \A k \in 1..Len(object.branches) :
         IsElseBranch(object.branches[k]) => k = Len(object.branches)

\* C24: in every state every conditional has at most one else branch, and it
\* is its last branch.
C24_ElseBranchIsLast ==
  /\ \A k \in 1..Len(scopes) : ElseIsLast(scopes[k])
  /\ \A k \in 1..Len(openScopes) :
       \A j \in 1..Len(openScopes[k].branches) :
         "type" \in DOMAIN openScopes[k].branches[j]
           => ElseIsLast(openScopes[k].branches[j])

(***************************************************************************)
(* ud.ajax: the updates pool.                                              *)
(***************************************************************************)

\* The calls of ud.ajax one run makes.
MaxRequests == 7

\* The page talks to one hostname most of the time: the requests of a run that
\* go to another hostname.
MaxElsewhere == 1

BusyHostname == "a.example"

MAX_CONNECTIONS_PER_HOSTNAME == 6

\* The elements of an array.
Elements(arr) == {arr[k] : k \in 1..Len(arr)}

\* arr.indexOf(x), counted from 0; -1 when x is no element.
ArrayIndexOf(arr, x) ==
  IF x \in Elements(arr)
  THEN (CHOOSE k \in 1..Len(arr) :
          arr[k] = x /\ \A j \in 1..(k - 1) : arr[j] # x) - 1
  ELSE -1

\* arr.splice(start, 1): a negative start counts from the end.
Splice1(arr, start) ==
  LET from == IF start < 0
              THEN (IF Len(arr) + start < 0 THEN 0 ELSE Len(arr) + start)
              ELSE start
  IN  IF from >= Len(arr)
      THEN arr
      ELSE SubSeq(arr, 1, from) \o SubSeq(arr, from + 2, Len(arr))

\* The test of updates.add on the active list, with the "<=" that lets one
\* request too many through.
HasFreeConnectionInclusive(active) ==
  Len(active) <= MAX_CONNECTIONS_PER_HOSTNAME

\* updates.add: active.length < MAX_CONNECTIONS_PER_HOSTNAME
HasFreeConnection(active) == Len(active) < MAX_CONNECTIONS_PER_HOSTNAME

\* proxy.add of a request of type 'update' for hostname h: the request takes
\* the next id and goes to updates.add.
UpdatesAdd(h) ==
  /\ count < MaxRequests
  /\ h = BusyHostname
       \/ Len(updates_sent[h]) + Len(updates_queue[h]) < MaxElsewhere
  /\ count' = count + 1
  /\ IF HasFreeConnection(updates_active[h])
     THEN /\ updates_sent' = [updates_sent EXCEPT ![h] = Append(@, count + 1)]
          /\ updates_active' =
               [updates_active EXCEPT ![h] = Append(@, count + 1)]
          /\ UNCHANGED updates_queue
     ELSE /\ updates_queue' =
               [updates_queue EXCEPT ![h] = Append(@, count + 1)]
          /\ UNCHANGED <<updates_active, updates_sent>>
  /\ UNCHANGED <<updates_done, requests, overrides_active, polls_active,
                 polls_interval, timers>>
  /\ UNCHANGED <<templateVars, cacheVars, rendererVars>>

\* updates.remove: the head of the queue, when there is one, is sent and
\* pushed on the active list; then the element at indexOf(req) is spliced out.
ActiveAfterRemove(active, queue, req) ==
  LET pushed == IF queue # << >> THEN Append(active, Head(queue)) ELSE active
  IN  Splice1(pushed, ArrayIndexOf(pushed, req))

\* handleReadyStateChange at readyState 4 throws before this.remove(): a
\* JSON answer with status 200 and a success callback goes through
\* JSON.parse, every other mime type calls this.success whether set or not.
HandlerThrows(mimeJson, status200, hasSuccess, validJson) ==
  IF mimeJson
  THEN status200 /\ hasSuccess /\ ~validJson
  ELSE ~hasSuccess

\* What the handler does over every mime type, status, body and choice of
\* callbacks.
HandlerOutcomes ==
  {HandlerThrows(mimeJson, status200, hasSuccess, validJson) :
     mimeJson \in BOOLEAN, status200 \in BOOLEAN,
     hasSuccess \in BOOLEAN, validJson \in BOOLEAN}

\* The xhr of the sent update request req of hostname h reaches readyState 4
\* and handleReadyStateChange runs, for every mime type, status, body and
\* choice of callbacks.
UpdateReadyState4(h, req) ==
  /\ req \in Elements(updates_sent[h])
  /\ req \notin updates_done
  /\ updates_done' = updates_done \cup {req}
  /\ \E throws \in HandlerOutcomes :
       IF throws
       THEN UNCHANGED <<updates_active, updates_queue, updates_sent>>
       ELSE /\ updates_active' =
                 [updates_active EXCEPT
                    ![h] = ActiveAfterRemove(@, updates_queue[h], req)]
            /\ updates_sent' =
                 [updates_sent EXCEPT
                    ![h] = IF updates_queue[h] # << >>
                           THEN Append(@, Head(updates_queue[h]))
                           ELSE @]
            /\ updates_queue' =
                 [updates_queue EXCEPT
                    ![h] = IF @ # << >> THEN Tail(@) ELSE @]
  /\ UNCHANGED <<count, requests, overrides_active, polls_active,
                 polls_interval, timers>>
  /\ UNCHANGED <<templateVars, cacheVars, rendererVars>>

UpdatesNext ==
  \/ \E h \in Hostnames : UpdatesAdd(h)
  \/ \E h \in Hostnames : \E req \in 1..MaxRequests : UpdateReadyState4(h, req)

UpdatesSpec == Init /\ [][UpdatesNext]_vars

\* The browser delivers the answer of every request it was given.
UpdatesLiveSpec ==
  /\ UpdatesSpec
  /\ WF_vars(\E h \in Hostnames : \E req \in 1..MaxRequests :
               UpdateReadyState4(h, req))

\* The update requests sent and not yet answered.
InFlight(h) == Elements(updates_sent[h]) \ updates_done

\* C25: for every hostname the active list, and with it the requests sent
\* and not answered, never exceeds MAX_CONNECTIONS_PER_HOSTNAME, and no
\* request stands in an active list and in a queue.
C25_ConnectionsBounded ==
  /\ \A h \in Hostnames :
       /\ Len(updates_active[h]) <= MAX_CONNECTIONS_PER_HOSTNAME
       /\ Cardinality(InFlight(h)) <= MAX_CONNECTIONS_PER_HOSTNAME
       /\ InFlight(h) \subseteq Elements(updates_active[h])
  /\ \A h \in Hostnames : \A g \in Hostnames :
       Elements(updates_active[h]) \cap Elements(updates_queue[g]) = {}

\* A hostname has all its connections in use and a request waiting.
C25_Witness ==
  \E h \in Hostnames :
    /\ Cardinality(InFlight(h)) = MAX_CONNECTIONS_PER_HOSTNAME
    /\ updates_queue[h] # << >>

\* The requests of a hostname are sent in the order they were added.
SentInOrder(h) ==
  \A j \in 1..Len(updates_sent[h]) : \A k \in 1..Len(updates_sent[h]) :
    j < k => updates_sent[h][j] < updates_sent[h][k]

\* C26: the requests of a hostname are sent in the order they were added,
\* each once, and when every sent request reaches readyState 4 every queued
\* request is sent in the end.
C26_QueuedEventuallySent ==
  /\ [](\A h \in Hostnames : SentInOrder(h))
  /\ \A req \in 1..MaxRequests :
       (\E h \in Hostnames : req \in Elements(updates_queue[h]))
         ~> (\E h \in Hostnames : req \in Elements(updates_sent[h]))

\* C27: the step in which an update request reaches readyState 4 takes this
\* request, and no other, out of the active list of its hostname.
C27_SlotReleasedAtReadyState4 ==
  [][\A h \in Hostnames : \A req \in Elements(updates_sent[h]) :
       (req \notin updates_done /\ req \in updates_done')
         => /\ req \notin Elements(updates_active'[h])
            /\ Elements(updates_active[h]) \ {req}
                 \subseteq Elements(updates_active'[h])]_vars

(***************************************************************************)
(* ud.ajax: the overrides pool.                                            *)
(***************************************************************************)

\* The calls of ud.ajax with type 'override' one run makes.
MaxOverrides == 4

Urls == {"/a", "/b"}
Methods == {"get", "post"}
\* request.getQueryString() of settings without data, and with {q: 1}.
Queries == {"", "q=1"}

\* obj[key] = value
SetProperty(obj, key, value) ==
  [k \in DOMAIN obj \cup {key} |-> IF k = key THEN value ELSE obj[k]]

\* delete obj[key]
DeleteProperty(obj, key) == [k \in DOMAIN obj \ {key} |-> obj[k]]

\* request.send: this.url after the query of a get request was appended.
UrlAfterSend(url, method, query) ==
  IF query # "" /\ method = "get" THEN url \o "?" \o query ELSE url

\* A request as request.create leaves it: the url asked for, this.url and
\* xhr.readyState.
NewRequest(url, sentUrl, readyState) ==
  [asked |-> url, url |-> sentUrl, readyState |-> readyState]

\* overrides.add: the request found under req.url is aborted when its xhr is
\* not done; xhr.abort() leaves readyState 0.
AfterAbort(reqs, active, url) ==
  IF url \in DOMAIN active /\ reqs[active[url]].readyState # 4
  THEN [reqs EXCEPT ![active[url]].readyState = 0]
  ELSE reqs

\* proxy.add of a request of type 'override': overrides.add looks under
\* req.url, sends the request and stores it under req.url as send left it.
OverridesAdd(url, method, query) ==
  /\ count < MaxOverrides
  /\ count' = count + 1
  /\ requests' =
       Append(AfterAbort(requests, overrides_active, url),
              NewRequest(url, UrlAfterSend(url, method, query), 1))
  /\ overrides_active' =
       SetProperty(overrides_active, UrlAfterSend(url, method, query),
                   count + 1)
  /\ UNCHANGED <<updates_active, updates_queue, updates_sent, updates_done,
                 polls_active, polls_interval, timers>>
  /\ UNCHANGED <<templateVars, cacheVars, rendererVars>>

\* The xhr of a sent request of type 'override' or 'poll' reaches readyState
\* 4: handleReadyStateChange calls the callbacks and no pool function.
ReadyState4(req) ==
  /\ req \in 1..Len(requests)
  /\ requests[req].readyState = 1
  /\ requests' = [requests EXCEPT ![req].readyState = 4]
  /\ UNCHANGED <<count, updates_active, updates_queue, updates_sent,
                 updates_done, overrides_active, polls_active, polls_interval,
                 timers>>
  /\ UNCHANGED <<templateVars, cacheVars, rendererVars>>

OverridesNext ==
  \/ \E url \in Urls : \E method \in Methods : \E query \in Queries :
       OverridesAdd(url, method, query)
  \/ \E req \in 1..MaxOverrides : ReadyState4(req)

OverridesSpec == Init /\ [][OverridesNext]_vars

\* The requests added for url, and those of them still in flight.
AddedFor(url) == {req \in 1..Len(requests) : requests[req].asked = url}
InFlightFor(url) == {req \in AddedFor(url) : requests[req].readyState = 1}

\* C28: for every URL at most one override request is in flight, and
\* overrides.active holds under the URL the request added last for it.
C28_OneOverridePerUrl ==
  \A url \in Urls :
    /\ Cardinality(InFlightFor(url)) <= 1
    /\ AddedFor(url) # {}
         => /\ url \in DOMAIN overrides_active
            /\ \A req \in AddedFor(url) : req <= overrides_active[url]
            /\ overrides_active[url] \in AddedFor(url)

(***************************************************************************)
(* ud.ajax: the polls pool.  The polls of the page carry no data, so send  *)
(* leaves this.url as it is.  The handle window.setInterval returns is     *)
(* some number of its own for each call: here the id of the request.       *)
(***************************************************************************)

\* proxy.add of a request of type 'poll': polls.add does nothing when the
\* url has an interval; else it sends the request and starts the interval.
PollsAdd(url) ==
  /\ count < MaxRequests
  /\ count' = count + 1
  /\ IF url \in DOMAIN polls_interval
     THEN /\ requests' = Append(requests, NewRequest(url, url, 0))
          /\ UNCHANGED <<polls_interval, polls_active, timers>>
     ELSE /\ requests' = Append(requests, NewRequest(url, url, 1))
          /\ timers' = timers \cup {count + 1}
          /\ polls_interval' = SetProperty(polls_interval, url, count + 1)
          /\ polls_active' = SetProperty(polls_active, url, count + 1)
  /\ UNCHANGED <<updates_active, updates_queue, updates_sent, updates_done,
                 overrides_active>>
  /\ UNCHANGED <<templateVars, cacheVars, rendererVars>>

\* req.remove() of a request polls.add started: polls.remove clears the
\* interval found under req.url and deletes the entry of polls.active.
PollsRemove(req) ==
  /\ req \in 1..Len(requests)
  /\ requests[req].readyState # 0
  /\ timers' = IF requests[req].url \in DOMAIN polls_interval
               THEN timers \ {polls_interval[requests[req].url]}
               ELSE timers
  /\ polls_active' = DeleteProperty(polls_active, requests[req].url)
  /\ UNCHANGED <<count, updates_active, updates_queue, updates_sent,
                 updates_done, requests, overrides_active, polls_interval>>
  /\ UNCHANGED <<templateVars, cacheVars, rendererVars>>

\* The interval of a poll fires: req.send() opens the xhr again.
PollTimerFires(handle) ==
  /\ handle \in timers
  /\ requests' = [requests EXCEPT ![handle].readyState = 1]
  /\ UNCHANGED <<count, updates_active, updates_queue, updates_sent,
                 updates_done, overrides_active, polls_active, polls_interval,
                 timers>>
  /\ UNCHANGED <<templateVars, cacheVars, rendererVars>>

PollsNext ==
  \/ \E url \in Urls : PollsAdd(url)
  \/ \E req \in 1..MaxRequests : PollsRemove(req)
  \/ \E handle \in 1..MaxRequests : PollTimerFires(handle)
  \/ \E req \in 1..MaxRequests : ReadyState4(req)

PollsSpec == Init /\ [][PollsNext]_vars

\* C29: a URL has an entry in polls.active exactly when it has one in
\* polls.interval, and a polls.add for a URL without an entry in polls.active
\* (none yet, or removed) starts polling it: the URL has an entry and a
\* running interval afterwards.
C29_ActiveIffInterval ==
  /\ [](DOMAIN polls_active = DOMAIN polls_interval)
  /\ [][\A url \in Urls :
          (/\ count' = count + 1
           /\ requests'[count'].asked = url
           /\ url \notin DOMAIN polls_active)
            => /\ url \in DOMAIN polls_active'
               /\ polls_interval'[url] \in timers']_vars

(***************************************************************************)
(* cacheHandler                                                            *)
(***************************************************************************)

\* The milliseconds that pass in one run.
MaxClock == 2

\* The page hashes the server hands out.
PageHashes == {"h1", "h2", "h3", "h4", "h5", "h6"}
PageHashAt(i) == <<"h1", "h2", "h3", "h4", "h5", "h6">>[i]

\* The html of a page as it arrives.
Htmls == {"<p>"}

\* What setItem stores for a page: created and html; "null" is null.
StoredPage(created, html) == [created |-> created, html |-> html]

\* The stores a visitor comes back with: up to five pages, created in the
\* same millisecond, in the order of their keys, or in the reverse order.
StoreOf(n, order) ==
  [k \in {PageHashAt(i) : i \in 1..n} |->
     StoredPage(CASE order = "same" -> -1
                  [] order = "rising" ->
                       (CHOOSE i \in 1..n : PageHashAt(i) = k) - 6
                  [] OTHER -> 0 - (CHOOSE i \in 1..n : PageHashAt(i) = k),
                "<p>")]

InitialStores ==
  {StoreOf(n, order) : n \in 0..5, order \in {"same", "rising", "falling"}}

\* The test of create with ">" in place of ">=".
CacheFullExclusive(size) == size > 5

\* create: this.cacheSize() >= 5
CacheFull(size) == size >= 5

\* delete(0): the keys the loop can end on, the first key in the order of
\* enumeration among those with the least created.
OldestKeys(store) ==
  {k \in DOMAIN store :
     \A j \in DOMAIN store : store[k].created <= store[j].created}

\* delete(0): the store without the oldest item; removeItem(null) on an
\* empty store removes nothing.
AfterDelete0(store) ==
  IF DOMAIN store = {}
  THEN {store}
  ELSE {DeleteProperty(store, k) : k \in OldestKeys(store)}

\* The page after its script ran: cacheHandler.delete(0) at load.
CacheLoaded ==
  /\ \E store \in InitialStores : localStorage \in AfterDelete0(store)
  /\ previous_key = "null"
  /\ clock = 0

CacheInit == TemplateIdle /\ AjaxIdle /\ RendererIdle /\ CacheLoaded

\* cacheHandler.create(page) of a new Page, whose html is null.
CacheCreate(page_hash) ==
  /\ \E now \in clock..(IF clock < MaxClock THEN clock + 1 ELSE clock) :
       /\ clock' = now
       /\ \E store \in (IF CacheFull(Cardinality(DOMAIN localStorage))
                        THEN AfterDelete0(localStorage)
                        ELSE {localStorage}) :
            localStorage' =
              SetProperty(store, page_hash, StoredPage(now, "null"))
  /\ previous_key' = page_hash
  /\ UNCHANGED <<templateVars, ajaxVars, rendererVars>>

\* cacheHandler.insertHTML(html): read(previous_key) of a key that is not
\* stored is null, and storedPage.html throws.
CacheInsertHTML(html) ==
  /\ IF /\ previous_key # "null"
        /\ previous_key \in DOMAIN localStorage
        /\ localStorage[previous_key].html \in {"null", ""}
     THEN localStorage' = [localStorage EXCEPT ![previous_key].html = html]
     ELSE UNCHANGED localStorage
  /\ UNCHANGED <<previous_key, clock>>
  /\ UNCHANGED <<templateVars, ajaxVars, rendererVars>>

CacheNext ==
  \/ \E page_hash \in PageHashes : CacheCreate(page_hash)
  \/ \E html \in Htmls : CacheInsertHTML(html)

CacheSpec == CacheInit /\ [][CacheNext]_vars

\* C30: the store never holds more than five entries, and while
\* previous_key is not null the store has an entry for it.
C30_CacheBounded ==
  /\ Cardinality(DOMAIN localStorage) <= 5
  /\ previous_key # "null" => previous_key \in DOMAIN localStorage

\* The store is full, a page of the visitor's store made room for the page
\* created last, and insertHTML filled that page in.
C30_Witness ==
  /\ Cardinality(DOMAIN localStorage) = 5
  /\ previous_key = "h6"
  /\ previous_key \in DOMAIN localStorage
  /\ localStorage[previous_key].html = "<p>"
  /\ localStorage[previous_key].created = clock

(***************************************************************************)
(* The page loader: fetchPage and handlePage over ud.ajax and cacheHandler. *)
(* A click without the alt key asks for the path of its link; the counter  *)
(* i of fetchPage is read by alt-clicks only.                              *)
(***************************************************************************)

\* The clicks of one run.
MaxPageLoads == 3

\* What the server answers for a path: data[2].page_hash and the raw template.
PageHashOf(url) == IF url = "/a" THEN "h1" ELSE "h2"
ContentHashOf(url) == IF url = "/a" THEN "c1" ELSE "c2"
RawTemplateOf(url) == IF url = "/a" THEN "<a>" ELSE "<b>"

TemplateUrlPrefix == "/getrawtemplate?"
ContentHashParam == "&content_hash="

\* handlePage: url.split('?')[1] when url has a '?', else url.
QueryOf(url) ==
  IF IndexOf(url, "?", 1) = 0
  THEN url
  ELSE LET rest == SubSeq(url, IndexOf(url, "?", 1) + 1, Len(url))
       IN  IF IndexOf(rest, "?", 1) = 0
           THEN rest
           ELSE SubSeq(rest, 1, IndexOf(rest, "?", 1) - 1)

\* `/getrawtemplate?${url}&content_hash=${data[2].content_hash}`
TemplateUrl(url, content_hash) ==
  TemplateUrlPrefix \o url \o ContentHashParam \o content_hash

IsTemplateRequest(url) == StartsAt(url, 1, TemplateUrlPrefix)

\* The page a raw-template url names.
TemplatePageOf(url) ==
  SubSeq(url, Len(TemplateUrlPrefix) + 1, IndexOf(url, ContentHashParam, 1) - 1)

\* A request of the page loader: request.create, with the status of its
\* answer once it has one.
PageRequest(url, readyState) ==
  [asked |-> url, url |-> url, readyState |-> readyState, status |-> 0]

\* What success is called with: the parsed page data of a path, or the text
\* of a raw template.
ResponseOf(url) ==
  IF IsTemplateRequest(url)
  THEN [type |-> "string", page |-> TemplatePageOf(url),
        html |-> RawTemplateOf(TemplatePageOf(url))]
  ELSE [type |-> "object", page |-> url, html |-> ""]

\* How a call of handlePage ends: whether it threw, the store, previous_key
\* and the time it leaves, and the url it asked ud.ajax for, if any.
Outcome(threw, store, key, now, fetch) ==
  [thrown |-> threw, store |-> store, key |-> key, now |-> now,
   fetch |-> fetch]

\* cacheHandler.create on the store at time now.
CreatedStores(page_hash, now) ==
  {SetProperty(store, page_hash, StoredPage(now, "null")) :
     store \in (IF CacheFull(Cardinality(DOMAIN localStorage))
                THEN AfterDelete0(localStorage)
                ELSE {localStorage})}

\* handlePage(data, url).  url.split throws on an undefined url.  Page data
\* of a cached page is rendered (new Template throws on a null html), that of
\* an uncached page is created and its raw template asked for; a string goes
\* to insertHTML, whose result is undefined without previous_key.
HandlePage(data, url) ==
  IF url = "undefined"
  THEN {Outcome(TRUE, localStorage, previous_key, clock, "none")}
  ELSE IF data.type = "object"
  THEN IF PageHashOf(data.page) \in DOMAIN localStorage
       THEN {Outcome(localStorage[PageHashOf(data.page)].html = "null",
                     localStorage, previous_key, clock, "none")}
       ELSE UNION {{Outcome(FALSE, store, PageHashOf(data.page), now,
                            TemplateUrl(QueryOf(url),
                                        ContentHashOf(data.page))) :
                      store \in CreatedStores(PageHashOf(data.page), now)} :
                     now \in clock..(IF clock < MaxClock
                                     THEN clock + 1 ELSE clock)}
  ELSE IF previous_key = "null" \/ previous_key \notin DOMAIN localStorage
  THEN {Outcome(TRUE, localStorage, previous_key, clock, "none")}
  ELSE {Outcome(FALSE,
                IF localStorage[previous_key].html \in {"null", ""}
                THEN [localStorage EXCEPT ![previous_key].html = data.html]
                ELSE localStorage,
                previous_key, clock, "none")}

\* The second argument handleReadyStateChange gives success: none.
SuccessUrlArgument(req) == "undefined"

\* handleClick and fetchPage: ud.ajax(url, {success: handlePage}), a request
\* of type 'update' for the page's own hostname.
FetchPage(url) ==
  /\ count < MaxPageLoads
  /\ count' = count + 1
  /\ IF HasFreeConnection(updates_active[BusyHostname])
     THEN /\ requests' = Append(requests, PageRequest(url, 1))
          /\ updates_active' =
               [updates_active EXCEPT ![BusyHostname] = Append(@, count + 1)]
          /\ updates_sent' =
               [updates_sent EXCEPT ![BusyHostname] = Append(@, count + 1)]
          /\ UNCHANGED updates_queue
     ELSE /\ requests' = Append(requests, PageRequest(url, 0))
          /\ updates_queue' =
               [updates_queue EXCEPT ![BusyHostname] = Append(@, count + 1)]
          /\ UNCHANGED <<updates_active, updates_sent>>
  /\ UNCHANGED <<updates_done, overrides_active, polls_active,
                 polls_interval, timers>>
  /\ UNCHANGED <<templateVars, cacheVars, rendererVars>>

\* The pools after handleReadyStateChange of req: the request handlePage
\* asked for goes through updates.add, and unless the handler threw
\* this.remove() releases the slot and sends the head of the queue.
PoolAfterHandler(req, status, out, sentNow) ==
  LET h == BusyHostname
      fetched == out.fetch # "none"
      reqs1 == [requests EXCEPT ![req].readyState = 4, ![req].status = status]
      reqs2 == IF fetched
               THEN Append(reqs1,
                           PageRequest(out.fetch, IF sentNow THEN 1 ELSE 0))
               ELSE reqs1
      act1 == IF sentNow
              THEN Append(updates_active[h], count + 1)
              ELSE updates_active[h]
      que1 == IF fetched /\ ~sentNow
              THEN Append(updates_queue[h], count + 1)
              ELSE updates_queue[h]
      sent1 == IF sentNow
               THEN Append(updates_sent[h], count + 1)
               ELSE updates_sent[h]
      next == ~out.thrown /\ que1 # << >>
  IN  /\ count' = IF fetched THEN count + 1 ELSE count
      /\ requests' = IF next
                     THEN [reqs2 EXCEPT ![Head(que1)].readyState = 1]
                     ELSE reqs2
      /\ updates_active' =
           [updates_active EXCEPT
              ![h] = IF out.thrown
                     THEN act1
                     ELSE ActiveAfterRemove(act1, que1, req)]
      /\ updates_queue' =
           [updates_queue EXCEPT ![h] = IF next THEN Tail(que1) ELSE que1]
      /\ updates_sent' =
           [updates_sent EXCEPT
              ![h] = IF next THEN Append(sent1, Head(que1)) ELSE sent1]
      /\ updates_done' = updates_done \cup {req}

\* The xhr of a request of the page loader reaches readyState 4:
\* handleReadyStateChange calls success with the answer alone, for page data
\* (JSON) when the status is 200, for a raw template whatever the status;
\* there is no error callback.
PageReadyState4(req) ==
  /\ req \in 1..Len(requests)
  /\ requests[req].readyState = 1
  /\ \E status \in {200, 500} :
       \E out \in (IF IsTemplateRequest(requests[req].url) \/ status = 200
                   THEN HandlePage(ResponseOf(requests[req].url),
                                   SuccessUrlArgument(req))
                   ELSE {Outcome(FALSE, localStorage, previous_key, clock,
                                 "none")}) :
         /\ localStorage' = out.store
         /\ previous_key' = out.key
         /\ clock' = out.now
         /\ PoolAfterHandler(req, status, out,
                             out.fetch # "none"
                               /\ HasFreeConnection(updates_active[BusyHostname]))
  /\ UNCHANGED <<overrides_active, polls_active, polls_interval, timers>>
  /\ UNCHANGED <<templateVars, rendererVars>>

PageNext ==
  \/ \E url \in Urls : FetchPage(url)
  \/ \E req \in 1..(2 * MaxPageLoads) : PageReadyState4(req)

PageSpec == Init /\ [][PageNext]_vars

\* The page data of url arrived and handlePage was called with it.
PageDataHandled(url) ==
  \E req \in 1..Len(requests) :
    /\ requests[req].asked = url
    /\ requests[req].readyState = 4
    /\ requests[req].status = 200

\* No request of the page loader is waiting for its answer.
NoRequestPending ==
  \A req \in 1..Len(requests) : requests[req].readyState = 4

\* C31: the html of a cache entry is only ever the raw template of the page
\* whose hash is its key, and once the answers of the page loads have all
\* been handled the entry of every loaded page holds that page's template.
C31_TemplateStoredWithItsPage ==
  /\ \A key \in DOMAIN localStorage :
       localStorage[key].html # "null"
         => \E url \in Urls : /\ PageHashOf(url) = key
                              /\ localStorage[key].html = RawTemplateOf(url)
  /\ \A url \in Urls :
       (PageDataHandled(url) /\ NoRequestPending)
         => /\ PageHashOf(url) \in DOMAIN localStorage
            /\ localStorage[PageHashOf(url)].html = RawTemplateOf(url)

(***************************************************************************)
(* uweb_sparserenderer.  Every fetch is answered; the order of the answers *)
(* is free.                                                                *)
(***************************************************************************)

\* The clicks and submits of one run.
MaxNavigations == 2

\* uweb_sparserenderer.templatecache
templatecache == TRUE

\* The page a path asks for: the path without its query.
PageOf(path) ==
  IF IndexOf(path, "?", 1) = 0
  THEN path
  ELSE SubSeq(path, 1, IndexOf(path, "?", 1) - 1)

\* The server's answer for a path: response['template'] and the one
\* replacement of the page, its title.
TemplatePathOf(path) == PageOf(path) \o ".html"
TitleOf(path) == "title of " \o PageOf(path)

\* The text the server serves at '/template/' + hash + path.
TemplateText(path, hash) == path \o "@" \o hash \o ":[t]"

\* String.prototype.replaceAll with a string pattern.
StringReplaceAll(s, key, value) == JoinStr(SplitStr(s, key), value)

\* HandleUrlResponse: the template with every key of response['replacements']
\* replaced, as it is written to document.body.innerHTML.
BodyOf(text, path) == StringReplaceAll(text, "[t]", TitleOf(path))

\* GetTemplate: this.templatecache > 0 && this.templates[path]
CacheHit(path) ==
  templatecache /\ path \in DOMAIN templates /\ templates[path] # ""

\* A navigation: the path given to HandleUrlResponse, how far it got, the
\* hash GetTemplate was called with and the text it returned.
Navigation(path, phase, hash, text) ==
  [path |-> path, phase |-> phase, hash |-> hash, template |-> text]

\* DoClick(path): the fetch of the path is on its way.
DoClick(path) ==
  /\ Len(navigations) < MaxNavigations
  /\ navigations' = Append(navigations, Navigation(path, "fetch", "", ""))
  /\ UNCHANGED <<templates, history, body, template_hash>>
  /\ UNCHANGED <<templateVars, ajaxVars, cacheVars>>

\* DoSubmit(form): a form of method head or get goes to DoClick with the
\* post string as its query; any other form is fetched at form.action.
DoSubmit(action, method, PostString) ==
  IF method \in {"head", "get"}
  THEN DoClick(action \o "?" \o PostString)
  ELSE /\ Len(navigations) < MaxNavigations
       /\ navigations' =
            Append(navigations, Navigation(action, "fetch", "", ""))
       /\ UNCHANGED <<templates, history, body, template_hash>>
       /\ UNCHANGED <<templateVars, ajaxVars, cacheVars>>

\* The answer of navigation n arrives: HandleUrlResponse pushes the path,
\* and GetTemplate either returns the cached text, after which the body is
\* written in the same turn, or fetches the template.
HandleUrlResponse(n) ==
  /\ n \in 1..Len(navigations)
  /\ navigations[n].phase = "fetch"
  /\ history' = Append(history, navigations[n].path)
  /\ IF CacheHit(TemplatePathOf(navigations[n].path))
     THEN /\ navigations' =
               [navigations EXCEPT
                  ![n] = Navigation(@.path, "done",
                                    template_hash[TemplatePathOf(@.path)],
                                    templates[TemplatePathOf(@.path)])]
          /\ body' = BodyOf(templates[TemplatePathOf(navigations[n].path)],
                            navigations[n].path)
     ELSE /\ navigations' =
               [navigations EXCEPT
                  ![n] = Navigation(@.path, "template",
                                    template_hash[TemplatePathOf(@.path)], "")]
          /\ UNCHANGED body
  /\ UNCHANGED <<templates, template_hash>>
  /\ UNCHANGED <<templateVars, ajaxVars, cacheVars>>

\* The template navigation n asked for arrives: GetTemplate stores the text
\* under the path and returns it, and HandleUrlResponse writes the body.
TemplateFetched(n) ==
  /\ n \in 1..Len(navigations)
  /\ navigations[n].phase = "template"
  /\ templates' =
       SetProperty(templates, TemplatePathOf(navigations[n].path),
                   TemplateText(TemplatePathOf(navigations[n].path),
                                navigations[n].hash))
  /\ navigations' =
       [navigations EXCEPT
          ![n] = Navigation(@.path, "done", @.hash,
                            TemplateText(TemplatePathOf(@.path), @.hash))]
  /\ body' = BodyOf(TemplateText(TemplatePathOf(navigations[n].path),
                                 navigations[n].hash),
                    navigations[n].path)
  /\ UNCHANGED <<history, template_hash>>
  /\ UNCHANGED <<templateVars, ajaxVars, cacheVars>>

\* The site is deployed anew: the hash of a template changes.
TemplateChanges(path) ==
  /\ template_hash[path] = "v1"
  /\ template_hash' = [template_hash EXCEPT ![path] = "v2"]
  /\ UNCHANGED <<navigations, templates, history, body>>
  /\ UNCHANGED <<templateVars, ajaxVars, cacheVars>>

RendererNext ==
  \/ \E path \in Urls : DoClick(path)
  \/ \E action \in Urls : \E method \in Methods : \E PostString \in Queries :
       DoSubmit(action, method, PostString)
  \/ \E n \in 1..MaxNavigations : HandleUrlResponse(n)
  \/ \E n \in 1..MaxNavigations : TemplateFetched(n)
  \/ \E path \in TemplatePaths : TemplateChanges(path)

RendererSpec == Init /\ [][RendererNext]_vars

\* C32: the text GetTemplate returned to a navigation is the text of the
\* hash it was called with.
C32_TemplateOfAskedHash ==
  \A n \in 1..Len(navigations) :
    navigations[n].phase = "done"
      => navigations[n].template =
           TemplateText(TemplatePathOf(navigations[n].path),
                        navigations[n].hash)

\* C33: once two navigations, and all others, have been handled, the top
\* history entry and the body are those of the navigation triggered last.
C33_LastNavigationWins ==
  (/\ Len(navigations) >= 2
   /\ \A n \in 1..Len(navigations) : navigations[n].phase = "done")
    => /\ history[Len(history)] = navigations[Len(navigations)].path
       /\ body = BodyOf(navigations[Len(navigations)].template,
                        navigations[Len(navigations)].path)

====
